---- MODULE Spec2Model ----
(***************************************************************************)
(* WorkStamper (src/app.py): a Slack bot that relays clock-in, clock-out   *)
(* and leave requests to the freee HR API, with a per-user OAuth token     *)
(* store (TinyDB).                                                         *)
(*                                                                         *)
(* Every invocation of a handler (a slash command, a modal submission or   *)
(* the OAuth callback) runs in a slot of Procs; slots run concurrently     *)
(* (Bolt runs listeners on a thread pool, Flask serves requests on         *)
(* threads).  A step of an invocation is atomic up to and including one    *)
(* access to shared state: the token store db, the provider's token        *)
(* endpoint, the upstream work records.                                    *)
(*                                                                         *)
(* External calls: every HTTP call to freee ends "ok", "http_error"        *)
(* (non-2xx, raise_for_status raises with a response) or "conn_error"      *)
(* (a RequestException that carries no response).  Slack Web API calls     *)
(* succeed, except where the code has a handler for their failure          *)
(* (users_info, line 88; views_open inside the try of line 229).           *)
(***************************************************************************)
EXTENDS Integers, Sequences, FiniteSets, TLC

\* ------------------------------------------------------------------ bounds
\* Subject identifiers (Slack user ids) and the slots invocations run in.
Users == {"U1", "U2"}
Procs == {"p1", "p2"}
\* The clock runs from 0 to MaxTime.
MaxTime == 2
\* The provider issues at most MaxIssued token sets.
MaxIssued == 2
\* A leave range covers at most MaxLeaveDays days.
MaxLeaveDays == 2
\* The lifetime (expires_in) of the token sets the provider issues.
ExpiresIn == 1

\* ------------------------------------------------------- program constants
TagHome == 13548
TagOffice == 3733
LeaveTemplate == 7
None == 0

\* The attendance tags the clock-in modal offers (two of its four options).
Tags == {TagHome, TagOffice}

HttpOutcomes == {"ok", "http_error", "conn_error"}

\* The employee the HR directory holds for a user's email (ids are positive);
\* U2 is a Slack user the directory does not know.
EmployeeOf(user_id) == IF user_id = "U1" THEN 101 ELSE None
Employees == {EmployeeOf(u) : u \in Users} \ {None}

\* ------------------------------------------------------------------- dates
\* A date is <<year, month, day>>, as datetime.date holds it; the date
\* string 'YYYY-MM-DD' is its three fields in that order.
Dates == {<<2024, 2, 28>>, <<2024, 2, 29>>, <<2024, 3, 1>>}
Today == <<2024, 2, 29>>

IsLeap(y) == (y % 4 = 0) /\ ((y % 100 # 0) \/ (y % 400 = 0))

DaysInMonth(y, m) ==
    IF m = 2 THEN (IF IsLeap(y) THEN 29 ELSE 28)
    ELSE IF m \in {4, 6, 9, 11} THEN 30 ELSE 31

\* current_date += datetime.timedelta(days=1)
NextDay(d) ==
    IF d[3] < DaysInMonth(d[1], d[2]) THEN <<d[1], d[2], d[3] + 1>>
    ELSE IF d[2] < 12 THEN <<d[1], d[2] + 1, 1>>
    ELSE <<d[1] + 1, 1, 1>>

\* Mutant of DateLE: only the days of the month are compared.
DateLE_day_of_month_only(a, b) == a[3] <= b[3]

\* current_date <= end_date_obj
DateLE(a, b) ==
    \/ a[1] < b[1]
    \/ a[1] = b[1] /\ a[2] < b[2]
    \/ a[1] = b[1] /\ a[2] = b[2] /\ a[3] <= b[3]

DaysBeforeMonth(y, m) ==
    LET f[k \in 1..12] == IF k = 1 THEN 0 ELSE f[k - 1] + DaysInMonth(y, k - 1)
    IN f[m]

\* date.toordinal(): the proleptic Gregorian ordinal of a date.
ToOrdinal(d) ==
    LET y == d[1] - 1
    IN y * 365 + (y \div 4) - (y \div 100) + (y \div 400) + DaysBeforeMonth(d[1], d[2]) + d[3]

\* The date pickers' values: any two dates, the range capped at MaxLeaveDays
\* days (an end date before the start date is a value the form can send).
LeaveRanges == {r \in Dates \X Dates : ToOrdinal(r[2]) - ToOrdinal(r[1]) < MaxLeaveDays}

\* ------------------------------------------------------------------- state
VARIABLES
    db,            \* TinyDB('user_tokens.json'): the documents, in doc_id order
    now,           \* the clock (time.time(), in expiry units)
    issued,        \* token sets the provider has issued so far
    work_records,  \* upstream HR work records, by <<employee_id, date>>
    views,         \* the modal view Slack shows each user, with its private_metadata
    proc           \* the frame of each running handler invocation

vars == <<db, now, issued, work_records, views, proc>>

IdleFrame ==
    [handler |-> "idle", pc |-> "idle", user_id |-> "-", trace |-> <<>>,
     access_token |-> None, employee_id |-> None, branch |-> "-",
     user_data |-> <<>>, new_token_data |-> <<>>, t_exchange |-> 0,
     pre_check |-> "-", selected |-> "-", work_record |-> <<>>,
     start_date |-> <<>>, end_date |-> <<>>, current_date |-> <<>>,
     result |-> "-"]

\* A modal view: its callback_id and the private_metadata it carries.
View(callback_id, employee_id) == [callback_id |-> callback_id, private_metadata |-> employee_id]
NoView == View("none", None)

\* client.views_open / views_push / views_update for a user: Slack shows the
\* user that view (a view stays up until another replaces it, so that a
\* submit button can be clicked twice).
ShowView(user_id, v) == [views EXCEPT ![user_id] = v]

EmptyRecord == [work_record_template_id |-> None, employee_attendance_tags |-> <<>>]

Init ==
    /\ db = <<>>
    /\ now = 0
    /\ issued = 0
    /\ work_records = [k \in Employees \X Dates |-> EmptyRecord]
    /\ views = [u \in Users |-> NoView]
    /\ proc = [p \in Procs |-> IdleFrame]

\* ------------------------------------------------------------ trace events
Ack == <<"ack">>
\* An HTTP call to freee and how it ended: <<method, api, argument, argument, outcome>>
HttpCall(method, api, a, b, outcome) == <<method, api, a, b, outcome>>
IsHrCall(e) == e[1] \in {"GET", "POST", "PUT"}
IsMessage(e) == e[1] = "chat_postMessage"
IsViewOp(e) == e[1] \in {"views_open", "views_update", "views_push"}

Emit(f, e) == [f EXCEPT !.trace = Append(@, e)]
Finish(f, how) == [f EXCEPT !.pc = "done", !.result = how]

\* A handler invocation starts in an idle slot.
Start(p, handler, user_id) ==
    [IdleFrame EXCEPT !.handler = handler, !.pc = "start", !.user_id = user_id]

\* client.chat_postMessage(channel=..., text=...)
chat_postMessage(f, channel, text) == Emit(f, <<"chat_postMessage", channel, text>>)

\* ------------------------------------------------------------ token store
Matching(user_id) == {i \in DOMAIN db : db[i].slack_user_id = user_id}

\* db.contains(UserToken.slack_user_id == user_id)
db_contains(user_id) == Matching(user_id) # {}

\* db.get(UserToken.slack_user_id == user_id): the first match, <<>> if none
db_get(user_id) ==
    IF Matching(user_id) = {} THEN <<>>
    ELSE <<db[CHOOSE i \in Matching(user_id) : \A j \in Matching(user_id) : i <= j]>>

\* Mutant of db_update: only the access token is replaced.
db_update_access_token_only(fields, user_id) ==
    [i \in DOMAIN db |->
        IF i \in Matching(user_id)
        THEN [db[i] EXCEPT !.access_token = fields.access_token]
        ELSE db[i]]

\* db.update(fields, UserToken.slack_user_id == user_id): fields merged into
\* every matching document
db_update(fields, user_id) ==
    [i \in DOMAIN db |-> IF i \in Matching(user_id) THEN fields @@ db[i] ELSE db[i]]

\* db.insert(document)
db_insert(document) == Append(db, document)

\* The token set the provider's token endpoint returns: freee's response
\* carries created_at (the time of issue, read back at line 63) and expires_in.
TokenSet(n) ==
    [access_token |-> n, refresh_token |-> n, created_at |-> now, expires_in |-> ExpiresIn]


\* -------------------------------------------------- Credential Refresher
\* Mutant of IsExpired: the lifetime is left out of the expiry time.
IsExpired_without_expires_in(user_data) == now >= user_data.created_at

\* datetime.datetime.now() >= fromtimestamp(created_at + expires_in)
IsExpired(user_data) == now >= user_data.created_at + user_data.expires_in

\* get_freee_token, lines 61-64 and 78: read the record and compare the clock.
get_freee_token(p) ==
    LET f == proc[p]
        user_data == db_get(f.user_id)
    IN /\ f.pc = "get_freee_token"
       /\ proc' = [proc EXCEPT ![p] =
            IF user_data = <<>>
            THEN [f EXCEPT !.pc = "got_token", !.branch = "not_linked", !.access_token = None]
            ELSE IF IsExpired(user_data[1])
            THEN [f EXCEPT !.pc = "refresh_post", !.branch = "expired", !.user_data = user_data]
            ELSE [f EXCEPT !.pc = "got_token", !.branch = "valid", !.user_data = user_data,
                           !.access_token = user_data[1].access_token]]
       /\ UNCHANGED <<db, now, issued, work_records, views>>

\* Mutant of get_freee_token_post: a failed exchange removes the subject's record.
get_freee_token_post_removing_record(p) ==
    LET f == proc[p]
        g(outcome) == Emit(f, HttpCall("POST", "token", "refresh_token",
                                       f.user_data[1].refresh_token, outcome))
        others(document) == document.slack_user_id # f.user_id
    IN /\ f.pc = "refresh_post"
       /\ \E outcome \in HttpOutcomes :
            IF outcome = "ok"
            THEN /\ issued < MaxIssued
                 /\ issued' = issued + 1
                 /\ db' = db
                 /\ proc' = [proc EXCEPT ![p] =
                        [g(outcome) EXCEPT !.pc = "db_update", !.t_exchange = now,
                                  !.new_token_data = <<TokenSet(issued + 1)>>]]
            ELSE /\ issued' = issued
                 /\ db' = SelectSeq(db, others)
                 /\ proc' = [proc EXCEPT ![p] =
                        [g(outcome) EXCEPT !.pc = "got_token", !.branch = "refresh_failed",
                                  !.access_token = None]]
       /\ UNCHANGED <<now, work_records, views>>

\* get_freee_token, lines 66-71 and 74-76: the refresh-token exchange.
get_freee_token_post(p) ==
    LET f == proc[p]
        g(outcome) == Emit(f, HttpCall("POST", "token", "refresh_token",
                                       f.user_data[1].refresh_token, outcome))
    IN /\ f.pc = "refresh_post"
       /\ \E outcome \in HttpOutcomes :
            IF outcome = "ok"
            THEN /\ issued < MaxIssued
                 /\ issued' = issued + 1
                 /\ proc' = [proc EXCEPT ![p] =
                        [g(outcome) EXCEPT !.pc = "db_update", !.t_exchange = now,
                                  !.new_token_data = <<TokenSet(issued + 1)>>]]
            ELSE /\ issued' = issued
                 /\ proc' = [proc EXCEPT ![p] =
                        [g(outcome) EXCEPT !.pc = "got_token", !.branch = "refresh_failed",
                                  !.access_token = None]]
       /\ UNCHANGED <<db, now, work_records, views>>

\* get_freee_token, lines 72-73: persist the new token set and return it.
get_freee_token_update(p) ==
    LET f == proc[p]
    IN /\ f.pc = "db_update"
       /\ db' = db_update(f.new_token_data[1], f.user_id)
       /\ proc' = [proc EXCEPT ![p] =
            [f EXCEPT !.pc = "got_token", !.branch = "refreshed",
                      !.access_token = f.new_token_data[1].access_token]]
       /\ UNCHANGED <<now, issued, work_records, views>>

\* A caller hands get_freee_token a subject identifier (line 60) ...
call_get_freee_token(p, slack_user_id) ==
    /\ proc[p].pc = "idle"
    /\ proc' = [proc EXCEPT ![p] =
            [Start(p, "get_freee_token", slack_user_id) EXCEPT !.pc = "get_freee_token"]]
    /\ UNCHANGED <<db, now, issued, work_records, views>>

\* ... and receives its result (the return of line 62, 73, 76 or 78).
get_freee_token_return(p) ==
    /\ proc[p].handler = "get_freee_token" /\ proc[p].pc = "got_token"
    /\ proc' = [proc EXCEPT ![p] = Finish(proc[p], "returned")]
    /\ UNCHANGED <<db, now, issued, work_records, views>>

\* ------------------------------------------------------ API client helpers
\* Mutant of LoggedResult: the status is not checked (no raise_for_status),
\* so an error response counts as success.
LoggedResult_status_unchecked(outcome) ==
    IF outcome = "conn_error" THEN "raise" ELSE "True"

\* What a wrapper that logs e.response.text does with the call's outcome:
\* a connection failure has no response, so the except block itself raises.
LoggedResult(outcome) ==
    CASE outcome = "ok" -> "True"
      [] outcome = "http_error" -> "False"
      [] outcome = "conn_error" -> "raise"

\* call_freee_time_clock: one POST to .../time_clocks
call_freee_time_clock(f, clock_type, outcome) ==
    Emit(f, HttpCall("POST", "time_clocks", f.employee_id, clock_type, outcome))

LookupOutcomes == {"found", "no_email", "not_found", "http_error", "conn_error"}

\* The outcomes the directory can give for a user: "found" needs an employee.
LookupOutcomesOf(user_id) ==
    IF EmployeeOf(user_id) = None THEN LookupOutcomes \ {"found"} ELSE LookupOutcomes

\* get_employee_id_from_slack_id, with get_email_from_slack and
\* get_freee_employee_id_by_email: the frame after the lookup
get_employee_id_from_slack_id(f, outcome) ==
    LET g == Emit(f, <<"users_info", f.user_id, IF outcome = "no_email" THEN "SlackApiError" ELSE "ok">>)
        h == Emit(g, HttpCall("GET", "employees", f.user_id, "email", outcome))
    IN IF outcome = "no_email"
       THEN chat_postMessage(g, f.user_id, "error_no_slack_email")
       ELSE IF outcome = "found"
       THEN [h EXCEPT !.employee_id = EmployeeOf(f.user_id)]
       ELSE chat_postMessage(h, f.user_id, "error_employee_not_found")

\* ------------------------------------------------------------- pre-check
\* Mutant of AuthUrl: the state parameter does not carry the subject identifier.
AuthUrl_without_subject(state) ==
    [endpoint |-> "https://accounts.secure.freee.co.jp/public_api/authorize",
     client_id |-> "FREEEE_CLIENT_ID", redirect_uri |-> "FREEEE_REDIRECT_URI",
     response_type |-> "code", state |-> "FREEEE_CLIENT_ID"]

\* The authorization URL of lines 181-184 (and 195-198), by its parts.
AuthUrl(state) ==
    [endpoint |-> "https://accounts.secure.freee.co.jp/public_api/authorize",
     client_id |-> "FREEEE_CLIENT_ID", redirect_uri |-> "FREEEE_REDIRECT_URI",
     response_type |-> "code", state |-> state]

\* Mutant of pre_check_authentication: the query is not keyed by the user.
pre_check_authentication_any_record(f) ==
    IF db = <<>>
    THEN [chat_postMessage(f, f.user_id, <<"link_required", AuthUrl(f.user_id)>>)
            EXCEPT !.pre_check = "False"]
    ELSE [f EXCEPT !.pre_check = "True"]

\* pre_check_authentication: the frame after the check, its result in pre_check
pre_check_authentication(f) ==
    IF ~db_contains(f.user_id)
    THEN [chat_postMessage(f, f.user_id, <<"link_required", AuthUrl(f.user_id)>>)
            EXCEPT !.pre_check = "False"]
    ELSE [f EXCEPT !.pre_check = "True"]

\* ------------------------------------------------------ command handlers
\* /連携
handle_auth_command(p, user_id) ==
    LET f == Emit(Start(p, "handle_auth_command", user_id), Ack)
    IN /\ proc[p].pc = "idle"
       /\ proc' = [proc EXCEPT ![p] =
            Finish(chat_postMessage(f, user_id, <<"link_request", AuthUrl(user_id)>>), "returned")]
       /\ UNCHANGED <<db, now, issued, work_records, views>>

\* /出勤
handle_clock_in_command(p, user_id) ==
    LET f == pre_check_authentication(Emit(Start(p, "handle_clock_in_command", user_id), Ack))
        v == View("clock_in_modal", None)
    IN /\ proc[p].pc = "idle"
       /\ IF f.pre_check = "False"
          THEN /\ proc' = [proc EXCEPT ![p] = Finish(f, "returned")]
               /\ views' = views
          ELSE /\ proc' = [proc EXCEPT ![p] = Finish(Emit(f, <<"views_open", v>>), "returned")]
               /\ views' = ShowView(user_id, v)
       /\ UNCHANGED <<db, now, issued, work_records>>

\* /退勤, lines 210-212
handle_clock_out_command(p, user_id) ==
    LET f == pre_check_authentication(Emit(Start(p, "handle_clock_out_command", user_id), Ack))
    IN /\ proc[p].pc = "idle"
       /\ proc' = [proc EXCEPT ![p] =
            IF f.pre_check = "False" THEN Finish(f, "returned")
            ELSE [f EXCEPT !.pc = "get_freee_token"]]
       /\ UNCHANGED <<db, now, issued, work_records, views>>

\* /退勤, lines 213-218: after get_freee_token, up to the employee lookup
handle_clock_out_command_lookup(p) ==
    LET f == proc[p]
    IN /\ f.handler = "handle_clock_out_command" /\ f.pc = "got_token"
       /\ \E outcome \in LookupOutcomesOf(f.user_id) :
            LET g == get_employee_id_from_slack_id(f, outcome)
            IN proc' = [proc EXCEPT ![p] =
                 IF f.access_token = None
                 THEN Finish(chat_postMessage(f, f.user_id, "error_auth_expired"), "returned")
                 ELSE IF g.employee_id = None
                 THEN Finish(chat_postMessage(g, f.user_id, "error_time_clock_failed"), "returned")
                 ELSE [g EXCEPT !.pc = "time_clock"]]
       /\ UNCHANGED <<db, now, issued, work_records, views>>

\* /退勤, lines 218-221: the time-clock call and the reply
handle_clock_out_command_clock(p) ==
    LET f == proc[p]
    IN /\ f.handler = "handle_clock_out_command" /\ f.pc = "time_clock"
       /\ \E outcome \in HttpOutcomes :
            LET g == call_freee_time_clock(f, "clock_out", outcome)
            IN proc' = [proc EXCEPT ![p] =
                CASE LoggedResult(outcome) = "True" ->
                        Finish(chat_postMessage(g, f.user_id, "clock_out_done"), "returned")
                  [] LoggedResult(outcome) = "False" ->
                        Finish(chat_postMessage(g, f.user_id, "error_time_clock_failed"), "returned")
                  [] LoggedResult(outcome) = "raise" -> Finish(g, "raised")]
       /\ UNCHANGED <<db, now, issued, work_records, views>>

\* /各種申請, lines 249-256: the pre-check comes before ack()
handle_applications_command(p, user_id) ==
    LET f == pre_check_authentication(Start(p, "handle_applications_command", user_id))
    IN /\ proc[p].pc = "idle"
       /\ proc' = [proc EXCEPT ![p] =
            IF f.pre_check = "False" THEN Finish(Emit(f, Ack), "returned")
            ELSE [Emit(f, Ack) EXCEPT !.pc = "get_freee_token"]]
       /\ UNCHANGED <<db, now, issued, work_records, views>>

SlackOutcomes == {"ok", "SlackApiError"}

\* open_application_modal, lines 231-244: after get_freee_token
open_application_modal(p) ==
    LET f == proc[p]
    IN /\ f.handler = "handle_applications_command" /\ f.pc = "got_token"
       /\ \E outcome \in LookupOutcomesOf(f.user_id), opened \in SlackOutcomes :
            LET g == get_employee_id_from_slack_id(f, outcome)
                v == View("select_application_type_view", g.employee_id)
            IN IF f.access_token = None
               THEN /\ proc' = [proc EXCEPT ![p] =
                        Finish(chat_postMessage(f, f.user_id, "error_auth_expired"), "returned")]
                    /\ views' = views
               ELSE IF g.employee_id = None
               THEN /\ proc' = [proc EXCEPT ![p] = Finish(g, "returned")]
                    /\ views' = views
               ELSE IF opened = "ok"
               THEN /\ proc' = [proc EXCEPT ![p] = Finish(Emit(g, <<"views_open", v>>), "returned")]
                    /\ views' = ShowView(f.user_id, v)
               ELSE /\ proc' = [proc EXCEPT ![p] = Finish(Emit(g, <<"logger.error">>), "returned")]
                    /\ views' = views
       /\ UNCHANGED <<db, now, issued, work_records>>

\* -------------------------------------------------------- modal handlers
\* Mutant of handle_clock_in_submission: ack() is not called before the work.
handle_clock_in_submission_without_ack(p, user_id) ==
    LET f == Start(p, "handle_clock_in_submission", user_id)
    IN /\ proc[p].pc = "idle"
       /\ views[user_id].callback_id = "clock_in_modal"
       /\ \E tag_id \in Tags :
            proc' = [proc EXCEPT ![p] = [f EXCEPT !.pc = "get_freee_token", !.selected = tag_id]]
       /\ UNCHANGED <<db, now, issued, work_records, views>>

\* clock_in_modal, lines 271-274: a submission of a view Slack holds open
handle_clock_in_submission(p, user_id) ==
    LET f == Emit(Start(p, "handle_clock_in_submission", user_id), Ack)
    IN /\ proc[p].pc = "idle"
       /\ views[user_id].callback_id = "clock_in_modal"
       /\ \E tag_id \in Tags :
            proc' = [proc EXCEPT ![p] = [f EXCEPT !.pc = "get_freee_token", !.selected = tag_id]]
       /\ UNCHANGED <<db, now, issued, work_records, views>>

\* clock_in_modal, lines 277-282
handle_clock_in_submission_lookup(p) ==
    LET f == proc[p]
    IN /\ f.handler = "handle_clock_in_submission" /\ f.pc = "got_token"
       /\ \E outcome \in LookupOutcomesOf(f.user_id) :
            LET g == get_employee_id_from_slack_id(f, outcome)
            IN proc' = [proc EXCEPT ![p] =
                 IF f.access_token = None
                 THEN Finish(chat_postMessage(f, f.user_id, "error_no_credentials"), "returned")
                 ELSE IF g.employee_id = None THEN Finish(g, "returned")
                 ELSE [g EXCEPT !.pc = "time_clock"]]
       /\ UNCHANGED <<db, now, issued, work_records, views>>

\* Mutant of handle_clock_in_submission_clock: the tag update follows the
\* time-clock call at once, without time.sleep(3).
handle_clock_in_submission_clock_without_sleep(p) ==
    LET f == proc[p]
    IN /\ f.handler = "handle_clock_in_submission" /\ f.pc = "time_clock"
       /\ \E outcome \in HttpOutcomes :
            LET g == call_freee_time_clock(f, "clock_in", outcome)
            IN proc' = [proc EXCEPT ![p] =
                CASE LoggedResult(outcome) = "True" -> [g EXCEPT !.pc = "tag_get"]
                  [] LoggedResult(outcome) = "False" ->
                        Finish(chat_postMessage(g, f.user_id, "error_time_clock_failed"), "returned")
                  [] LoggedResult(outcome) = "raise" -> Finish(g, "raised")]
       /\ UNCHANGED <<db, now, issued, work_records, views>>

\* clock_in_modal, lines 284-289: the time-clock call, then time.sleep(3)
handle_clock_in_submission_clock(p) ==
    LET f == proc[p]
    IN /\ f.handler = "handle_clock_in_submission" /\ f.pc = "time_clock"
       /\ \E outcome \in HttpOutcomes :
            LET g == call_freee_time_clock(f, "clock_in", outcome)
            IN proc' = [proc EXCEPT ![p] =
                CASE LoggedResult(outcome) = "True" ->
                        [Emit(g, <<"sleep", 3>>) EXCEPT !.pc = "tag_get"]
                  [] LoggedResult(outcome) = "False" ->
                        Finish(chat_postMessage(g, f.user_id, "error_time_clock_failed"), "returned")
                  [] LoggedResult(outcome) = "raise" -> Finish(g, "raised")]
       /\ UNCHANGED <<db, now, issued, work_records, views>>

\* The reply of lines 292-295 for update_freee_attendance_tag's result.
TagReply(f, updated) ==
    IF updated
    THEN chat_postMessage(f, f.user_id, "clock_in_and_tag_done")
    ELSE chat_postMessage(f, f.user_id, "clock_in_done_tag_failed")

\* update_freee_attendance_tag, lines 124-126: read the day's work record
update_freee_attendance_tag_get(p) ==
    LET f == proc[p]
        g(outcome) == Emit(f, HttpCall("GET", "work_records", f.employee_id, Today, outcome))
        work_record == work_records[<<f.employee_id, Today>>]
    IN /\ f.handler = "handle_clock_in_submission" /\ f.pc = "tag_get"
       /\ \E outcome \in HttpOutcomes :
            proc' = [proc EXCEPT ![p] =
                CASE LoggedResult(outcome) = "True" ->
                        [g(outcome) EXCEPT !.pc = "tag_put", !.work_record = <<work_record>>]
                  [] LoggedResult(outcome) = "False" -> Finish(TagReply(g(outcome), FALSE), "returned")
                  [] LoggedResult(outcome) = "raise" -> Finish(g(outcome), "raised")]
       /\ UNCHANGED <<db, now, issued, work_records, views>>

\* Mutant of update_freee_attendance_tag_put: the tag is appended to the tag
\* list that was read instead of replacing it.
update_freee_attendance_tag_put_appending(p) ==
    LET f == proc[p]
        g(outcome) == Emit(f, HttpCall("PUT", "work_records", f.employee_id, Today, outcome))
        work_record == [f.work_record[1] EXCEPT
                            !.employee_attendance_tags = Append(@, f.selected)]
    IN /\ f.handler = "handle_clock_in_submission" /\ f.pc = "tag_put"
       /\ \E outcome \in HttpOutcomes :
            /\ proc' = [proc EXCEPT ![p] =
                CASE LoggedResult(outcome) = "True" -> Finish(TagReply(g(outcome), TRUE), "returned")
                  [] LoggedResult(outcome) = "False" -> Finish(TagReply(g(outcome), FALSE), "returned")
                  [] LoggedResult(outcome) = "raise" -> Finish(g(outcome), "raised")]
            /\ work_records' =
                IF outcome = "ok"
                THEN [work_records EXCEPT ![<<f.employee_id, Today>>] = work_record]
                ELSE work_records
       /\ UNCHANGED <<db, now, issued, views>>

\* update_freee_attendance_tag, lines 127-134: set the tag list in the record
\* that was read and write the record back
update_freee_attendance_tag_put(p) ==
    LET f == proc[p]
        g(outcome) == Emit(f, HttpCall("PUT", "work_records", f.employee_id, Today, outcome))
        work_record == [f.work_record[1] EXCEPT !.employee_attendance_tags = <<f.selected>>]
    IN /\ f.handler = "handle_clock_in_submission" /\ f.pc = "tag_put"
       /\ \E outcome \in HttpOutcomes :
            /\ proc' = [proc EXCEPT ![p] =
                CASE LoggedResult(outcome) = "True" -> Finish(TagReply(g(outcome), TRUE), "returned")
                  [] LoggedResult(outcome) = "False" -> Finish(TagReply(g(outcome), FALSE), "returned")
                  [] LoggedResult(outcome) = "raise" -> Finish(g(outcome), "raised")]
            /\ work_records' =
                IF outcome = "ok"
                THEN [work_records EXCEPT ![<<f.employee_id, Today>>] = work_record]
                ELSE work_records
       /\ UNCHANGED <<db, now, issued, views>>

ApplicationTypes == {"leave_request", "time_correction"}

\* select_application_type_view, lines 299-307
handle_select_application_type(p, user_id, selected_type) ==
    LET f == Emit(Start(p, "handle_select_application_type", user_id), Ack)
        v == views[user_id]
    IN /\ proc[p].pc = "idle"
       /\ v.callback_id = "select_application_type_view"
       /\ proc' = [proc EXCEPT ![p] =
            [f EXCEPT !.pc = "get_freee_token", !.selected = selected_type,
                      !.employee_id = v.private_metadata]]
       /\ UNCHANGED <<db, now, issued, work_records, views>>

\* Mutant of handle_select_application_type_push: the pushed view does not
\* carry the private_metadata on.
handle_select_application_type_push_without_metadata(p) ==
    LET f == proc[p]
        g(outcome) == Emit(f, HttpCall("GET", "work_record_templates", "-", "-", outcome))
        v == View("submit_leave_request_view", None)
    IN /\ f.handler = "handle_select_application_type" /\ f.pc = "got_token"
       /\ \E outcome \in HttpOutcomes :
            IF f.access_token = None
            THEN /\ proc' = [proc EXCEPT ![p] = Finish(f, "returned")]
                 /\ views' = views
            ELSE IF f.selected # "leave_request"
            THEN /\ proc' = [proc EXCEPT ![p] =
                        Finish(Emit(f, <<"views_update", "not_implemented">>), "returned")]
                 /\ views' = ShowView(f.user_id, NoView)
            ELSE IF outcome # "ok"
            THEN /\ proc' = [proc EXCEPT ![p] =
                        Finish(Emit(g(outcome), <<"views_update", "no_leave_types">>), "returned")]
                 /\ views' = ShowView(f.user_id, NoView)
            ELSE /\ proc' = [proc EXCEPT ![p] =
                        Finish(Emit(g(outcome), <<"views_push", v>>), "returned")]
                 /\ views' = ShowView(f.user_id, v)
       /\ UNCHANGED <<db, now, issued, work_records>>

\* select_application_type_view, lines 310-326, with get_freee_leave_types
handle_select_application_type_push(p) ==
    LET f == proc[p]
        g(outcome) == Emit(f, HttpCall("GET", "work_record_templates", "-", "-", outcome))
        v == View("submit_leave_request_view", f.employee_id)
    IN /\ f.handler = "handle_select_application_type" /\ f.pc = "got_token"
       /\ \E outcome \in HttpOutcomes :
            IF f.access_token = None
            THEN /\ proc' = [proc EXCEPT ![p] = Finish(f, "returned")]
                 /\ views' = views
            ELSE IF f.selected # "leave_request"
            THEN /\ proc' = [proc EXCEPT ![p] =
                        Finish(Emit(f, <<"views_update", "not_implemented">>), "returned")]
                 /\ views' = ShowView(f.user_id, NoView)
            ELSE IF outcome # "ok"
            THEN /\ proc' = [proc EXCEPT ![p] =
                        Finish(Emit(g(outcome), <<"views_update", "no_leave_types">>), "returned")]
                 /\ views' = ShowView(f.user_id, NoView)
            ELSE /\ proc' = [proc EXCEPT ![p] =
                        Finish(Emit(g(outcome), <<"views_push", v>>), "returned")]
                 /\ views' = ShowView(f.user_id, v)
       /\ UNCHANGED <<db, now, issued, work_records>>

\* submit_leave_request_view, lines 330-339
handle_submit_leave_request(p, user_id, range) ==
    LET f == Emit(Start(p, "handle_submit_leave_request", user_id), Ack)
        v == views[user_id]
    IN /\ proc[p].pc = "idle"
       /\ v.callback_id = "submit_leave_request_view"
       /\ proc' = [proc EXCEPT ![p] =
            [f EXCEPT !.pc = "get_freee_token", !.selected = LeaveTemplate,
                      !.employee_id = v.private_metadata,
                      !.start_date = range[1], !.end_date = range[2]]]
       /\ UNCHANGED <<db, now, issued, work_records, views>>

\* submit_leave_request_view, lines 341-344, and lines 149-150
handle_submit_leave_request_begin(p) ==
    LET f == proc[p]
    IN /\ f.handler = "handle_submit_leave_request" /\ f.pc = "got_token"
       /\ proc' = [proc EXCEPT ![p] =
            IF f.access_token = None
            THEN Finish(chat_postMessage(f, f.user_id, "error_no_credentials"), "returned")
            ELSE [f EXCEPT !.pc = "leave_loop", !.current_date = f.start_date]]
       /\ UNCHANGED <<db, now, issued, work_records, views>>

\* The reply of lines 346-349 for submit_freee_leave_request's result.
LeaveReply(f, submitted) ==
    IF submitted
    THEN chat_postMessage(f, f.user_id, "leave_request_submitted")
    ELSE chat_postMessage(f, f.user_id, "error_leave_request_failed")

\* submit_freee_leave_request, lines 151-163: one turn of the loop
submit_freee_leave_request(p) ==
    LET f == proc[p]
        g(outcome) == Emit(f, HttpCall("PUT", "work_records", f.employee_id, f.current_date, outcome))
    IN /\ f.handler = "handle_submit_leave_request" /\ f.pc = "leave_loop"
       /\ IF DateLE(f.current_date, f.end_date)
          THEN \E outcome \in HttpOutcomes :
                /\ proc' = [proc EXCEPT ![p] =
                    CASE LoggedResult(outcome) = "True" ->
                            [g(outcome) EXCEPT !.current_date = NextDay(f.current_date)]
                      [] LoggedResult(outcome) = "False" ->
                            Finish(LeaveReply(g(outcome), FALSE), "returned")
                      [] LoggedResult(outcome) = "raise" -> Finish(g(outcome), "raised")]
                /\ work_records' =
                    IF outcome = "ok"
                    THEN [work_records EXCEPT ![<<f.employee_id, f.current_date>>] =
                            [work_record_template_id |-> f.selected,
                             employee_attendance_tags |-> <<>>]]
                    ELSE work_records
          ELSE /\ proc' = [proc EXCEPT ![p] = Finish(LeaveReply(f, TRUE), "returned")]
               /\ work_records' = work_records
       /\ UNCHANGED <<db, now, issued, views>>

\* ---------------------------------------------------------- OAuth callback
CallbackOutcomes == {"ok", "no_access_token", "conn_error"}

\* oauth_callback, lines 361-372 and 377-379: the authorization-code exchange
oauth_callback(p, slack_user_id) ==
    LET f(outcome) == Emit(Start(p, "oauth_callback", slack_user_id),
                           HttpCall("POST", "token", "authorization_code", "code", outcome))
    IN /\ proc[p].pc = "idle"
       /\ \E outcome \in CallbackOutcomes :
            CASE outcome = "ok" ->
                    /\ issued < MaxIssued
                    /\ issued' = issued + 1
                    /\ proc' = [proc EXCEPT ![p] =
                        [f(outcome) EXCEPT !.pc = "upsert", !.t_exchange = now,
                                  !.new_token_data =
                                    <<TokenSet(issued + 1) @@ [slack_user_id |-> slack_user_id]>>]]
              [] outcome = "no_access_token" ->
                    /\ issued' = issued
                    /\ proc' = [proc EXCEPT ![p] = Finish(f(outcome), "500")]
              [] outcome = "conn_error" ->
                    /\ issued' = issued
                    /\ proc' = [proc EXCEPT ![p] = Finish(f(outcome), "raised")]
       /\ UNCHANGED <<db, now, work_records, views>>

\* oauth_callback, line 374: db.upsert first updates the matching documents
oauth_callback_upsert(p) ==
    LET f == proc[p]
    IN /\ f.pc = "upsert"
       /\ IF db_contains(f.user_id)
          THEN /\ db' = db_update(f.new_token_data[1], f.user_id)
               /\ proc' = [proc EXCEPT ![p] =
                    Finish(chat_postMessage(f, f.user_id, "link_completed"), "returned")]
          ELSE /\ db' = db
               /\ proc' = [proc EXCEPT ![p] = [f EXCEPT !.pc = "upsert_insert"]]
       /\ UNCHANGED <<now, issued, work_records, views>>

\* oauth_callback, lines 374-376: db.upsert inserts when nothing was updated
oauth_callback_insert(p) ==
    LET f == proc[p]
    IN /\ f.pc = "upsert_insert"
       /\ db' = db_insert(f.new_token_data[1])
       /\ proc' = [proc EXCEPT ![p] =
            Finish(chat_postMessage(f, f.user_id, "link_completed"), "returned")]
       /\ UNCHANGED <<now, issued, work_records, views>>

\* ------------------------------------------------------------- environment
\* The handler has returned to the platform; the slot is free again.
Return(p) ==
    /\ proc[p].pc = "done"
    /\ proc' = [proc EXCEPT ![p] = IdleFrame]
    /\ UNCHANGED <<db, now, issued, work_records, views>>

Tick ==
    /\ now < MaxTime
    /\ now' = now + 1
    /\ UNCHANGED <<db, issued, work_records, views, proc>>

\* The handlers' entry points: commands, modal submissions, OAuth callbacks.
Commands(P, U) ==
    \E p \in P, user_id \in U :
        \/ handle_auth_command(p, user_id)
        \/ handle_clock_in_command(p, user_id)
        \/ handle_clock_out_command(p, user_id)
        \/ handle_applications_command(p, user_id)

Submissions(P, U) ==
    \E p \in P, user_id \in U :
        \/ handle_clock_in_submission(p, user_id)
        \/ \E selected_type \in ApplicationTypes :
                handle_select_application_type(p, user_id, selected_type)
        \/ \E range \in LeaveRanges : handle_submit_leave_request(p, user_id, range)

Callbacks(P, U) ==
    \E p \in P, slack_user_id \in U :
        oauth_callback(p, slack_user_id)

\* The later steps of the invocations in flight.
TokenSteps(P) ==
    \E p \in P :
        \/ get_freee_token(p)
        \/ get_freee_token_post(p)
        \/ get_freee_token_update(p)

CommandSteps(P) ==
    \E p \in P :
        \/ handle_clock_out_command_lookup(p)
        \/ handle_clock_out_command_clock(p)
        \/ open_application_modal(p)

ClockInSteps(P) ==
    \E p \in P :
        \/ handle_clock_in_submission_lookup(p)
        \/ handle_clock_in_submission_clock(p)
        \/ update_freee_attendance_tag_get(p)
        \/ update_freee_attendance_tag_put(p)

WizardSteps(P) ==
    \E p \in P :
        \/ handle_select_application_type_push(p)
        \/ handle_submit_leave_request_begin(p)
        \/ submit_freee_leave_request(p)

CallbackSteps(P) ==
    \E p \in P :
        \/ oauth_callback_upsert(p)
        \/ oauth_callback_insert(p)

Returns(P) == \E p \in P : Return(p)

\* One invocation at a time: every handler, for every user.
Next ==
    \/ Commands({"p1"}, Users)
    \/ Submissions({"p1"}, Users)
    \/ Callbacks({"p1"}, Users)
    \/ TokenSteps({"p1"})
    \/ CommandSteps({"p1"})
    \/ ClockInSteps({"p1"})
    \/ WizardSteps({"p1"})
    \/ CallbackSteps({"p1"})
    \/ Returns({"p1"})
    \/ Tick

Spec == Init /\ [][Next]_vars

\* Concurrent invocations for one user: OAuth callbacks, the clock-in command
\* and clock-in modal submissions (with their token refreshes), interleaved.
NextConcurrent ==
    \/ Callbacks(Procs, {"U1"})
    \/ CallbackSteps(Procs)
    \/ \E p \in Procs : handle_clock_in_command(p, "U1")
    \/ \E p \in Procs : handle_clock_in_submission(p, "U1")
    \/ TokenSteps(Procs)
    \/ ClockInSteps(Procs)
    \/ Returns(Procs)
    \/ Tick

SpecConcurrent == Init /\ [][NextConcurrent]_vars

\* The Credential Refresher on its own: concurrent calls of get_freee_token
\* for any subject identifier, against the store the OAuth callbacks fill.
NextRefresher ==
    \/ Callbacks(Procs, Users)
    \/ CallbackSteps(Procs)
    \/ \E p \in Procs, slack_user_id \in Users : call_get_freee_token(p, slack_user_id)
    \/ TokenSteps(Procs)
    \/ \E p \in Procs : get_freee_token_return(p)
    \/ Returns(Procs)
    \/ Tick

SpecRefresher == Init /\ [][NextRefresher]_vars

\* The token set user_tokens.json holds for U1 when the process starts: it was
\* issued to an earlier run of the process, so it is none of this run's.
StoredToken == MaxIssued + 1

\* The state after construction when TinyDB opens a user_tokens.json that
\* already holds U1's record (line 46).
InitLinked ==
    /\ db = <<[slack_user_id |-> "U1", access_token |-> StoredToken,
               refresh_token |-> StoredToken, created_at |-> 0,
               expires_in |-> ExpiresIn]>>
    /\ now = 0
    /\ issued = 0
    /\ work_records = [k \in Employees \X Dates |-> EmptyRecord]
    /\ views = [u \in Users |-> NoView]
    /\ proc = [p \in Procs |-> IdleFrame]

\* A double click: a linked user's clock-in modal submitted twice, the two
\* invocations interleaved (with their token refreshes and tag updates).
NextDoubleClick ==
    \/ \E p \in Procs : handle_clock_in_command(p, "U1")
    \/ \E p \in Procs : handle_clock_in_submission(p, "U1")
    \/ TokenSteps(Procs)
    \/ ClockInSteps(Procs)
    \/ Returns(Procs)
    \/ Tick

SpecDoubleClick == InitLinked /\ [][NextDoubleClick]_vars

\* ------------------------------------------------------------------ claims
PreCheckedCommands ==
    {"handle_clock_in_command", "handle_clock_out_command", "handle_applications_command"}

Events(f, Is(_)) == SelectSeq(f.trace, Is)

IsTimeClock(e) == IsHrCall(e) /\ e[2] = "time_clocks"

\* C1: while a subject has no record in the token store, every invocation of
\* /出勤, /退勤 or /各種申請 for that subject has had the pre-check answer
\* "not linked", has ended there, and has issued no HR API call of any kind.
C1_UnlinkedNoHrCall ==
    \A p \in Procs :
        LET f == proc[p]
        IN (f.handler \in PreCheckedCommands /\ ~db_contains(f.user_id)) =>
            /\ f.pre_check = "False"
            /\ f.pc = "done" /\ f.result = "returned"
            /\ Events(f, IsHrCall) = <<>>

\* A clock-out command of an unlinked user has ended while another user is linked.
C1_Witness ==
    \E p \in Procs :
        /\ proc[p].handler = "handle_clock_out_command" /\ proc[p].pc = "done"
        /\ proc[p].pre_check = "False"
        /\ ~db_contains(proc[p].user_id) /\ db # <<>>

\* C7: a /出勤 invocation of a user with no token record sends that user
\* exactly one message, the authorization URL whose state parameter is the
\* user's own subject identifier, and ends: no modal, no time-clock call.
C7_ClockInUnlinkedGetsAuthUrl ==
    \A p \in Procs :
        LET f == proc[p]
            msgs == Events(f, IsMessage)
        IN (f.handler = "handle_clock_in_command" /\ ~db_contains(f.user_id)) =>
            /\ f.pc = "done" /\ f.result = "returned"
            /\ Len(msgs) = 1
            /\ msgs[1][2] = f.user_id
            /\ msgs[1][3][1] = "link_required"
            /\ msgs[1][3][2].state = f.user_id
            /\ msgs[1][3][2].endpoint = "https://accounts.secure.freee.co.jp/public_api/authorize"
            /\ Events(f, IsViewOp) = <<>>
            /\ Events(f, IsTimeClock) = <<>>
            /\ views[f.user_id].callback_id # "clock_in_modal"

\* An unlinked user's /出勤 has ended with a message sent.
C7_Witness ==
    \E p \in Procs :
        /\ proc[p].handler = "handle_clock_in_command" /\ proc[p].pc = "done"
        /\ ~db_contains(proc[p].user_id)
        /\ Events(proc[p], IsMessage) # <<>>

IsRefresh(e) == IsHrCall(e) /\ e[2] = "token" /\ e[3] = "refresh_token"

\* What one step of the invocation in slot p does when get_freee_token finds
\* a stored record with now >= issued-at + expires-in.
C2_Step(p) ==
    LET f == proc[p]
        g == proc'[p]
        stored == db_get(f.user_id)
        exchanges == Events(g, IsRefresh)
    IN /\ (/\ f.pc = "get_freee_token" /\ g # f /\ stored # <<>>
           /\ now >= stored[1].created_at + stored[1].expires_in)
            => (g.pc = "refresh_post" /\ exchanges = <<>>)
       /\ (f.pc = "refresh_post" /\ g # f) =>
            /\ Len(exchanges) = 1
            /\ g.pc = (IF exchanges[1][5] = "ok" THEN "db_update" ELSE "got_token")
       /\ (f.pc = "db_update" /\ g # f) =>
            /\ g.pc = "got_token" /\ Len(exchanges) = 1
            /\ \E i \in DOMAIN db' : db'[i].slack_user_id = f.user_id
            /\ \A i \in DOMAIN db' :
                db'[i].slack_user_id = f.user_id =>
                    /\ db'[i].created_at = f.t_exchange
                    /\ db'[i].created_at > f.user_data[1].created_at
                    /\ db'[i].access_token = g.access_token
            /\ g.access_token = f.new_token_data[1].access_token
            /\ g.access_token # f.user_data[1].access_token
       /\ (g.branch \in {"refreshed", "refresh_failed"}) => Len(exchanges) = 1

\* C2: a call of get_freee_token that finds a record with now >= issued-at +
\* expires-in performs exactly one refresh exchange; when the exchange
\* succeeds, every record of the subject is persisted with the time of the
\* exchange as its issued-at (later than the original one) and with the newly
\* issued access token, which is the value returned.
C2_ExpiredRefreshedOnce == [][\A p \in Procs : C2_Step(p)]_vars

\* A call has refreshed an expired record and returned.
C2_Witness ==
    \E p \in Procs :
        /\ proc[p].handler = "get_freee_token" /\ proc[p].pc = "done"
        /\ proc[p].branch = "refreshed"
        /\ Len(Events(proc[p], IsRefresh)) = 1

\* C3: a call of get_freee_token that finds a record with now < issued-at +
\* expires-in returns the stored access token in that step, with no refresh
\* exchange, no token issued and the token store as it was.
C3_ValidReturnedUnchanged ==
    [][\A p \in Procs :
        LET f == proc[p]
            g == proc'[p]
            stored == db_get(f.user_id)
        IN (/\ f.pc = "get_freee_token" /\ g # f /\ stored # <<>>
            /\ now < stored[1].created_at + stored[1].expires_in)
            => /\ g.pc = "got_token"
               /\ g.access_token = stored[1].access_token
               /\ Events(g, IsRefresh) = <<>>
               /\ db' = db /\ issued' = issued]_vars

\* A call has returned the stored token of a record that had not expired.
C3_Witness ==
    \E p \in Procs :
        /\ proc[p].handler = "get_freee_token" /\ proc[p].pc = "done"
        /\ proc[p].branch = "valid" /\ proc[p].access_token # None

\* C4: the result get_freee_token gives for a failed refresh exchange differs
\* from the result it gives when the subject has no record.
C4_RefreshFailureDistinct ==
    \A p, q \in Procs :
        (/\ proc[p].handler = "get_freee_token" /\ proc[p].pc = "done"
         /\ proc[q].handler = "get_freee_token" /\ proc[q].pc = "done"
         /\ proc[p].branch = "not_linked" /\ proc[q].branch = "refresh_failed")
            => proc[p].access_token # proc[q].access_token

\* C5: the token store holds at most one record per subject identifier.
C5_OneRecordPerSubject ==
    \A user_id \in Users : Cardinality(Matching(user_id)) <= 1

IsLookup(e) == IsHrCall(e) /\ e[2] = "employees"
IsWorkRecordCall(e) == IsHrCall(e) /\ e[2] = "work_records"
IsUserVisible(e) == IsMessage(e) \/ IsViewOp(e)
HasMessage(f, text) ==
    \E i \in DOMAIN f.trace : f.trace[i] = <<"chat_postMessage", f.user_id, text>>

\* C6: a leave submission over [start, end], start <= end, issues its updates
\* one per calendar day from start upwards; with every call successful it
\* issues end - start + 1 calls and reports success; when a call fails it is
\* the last call, failure is reported, and the days written before it are
\* still written upstream.
C6_LeaveSubmission ==
    \A p \in Procs :
        LET f == proc[p]
            calls == Events(f, IsWorkRecordCall)
            n == Len(calls)
            days == ToOrdinal(f.end_date) - ToOrdinal(f.start_date) + 1
        IN (/\ f.handler = "handle_submit_leave_request" /\ f.pc = "done"
            /\ f.access_token # None /\ DateLE(f.start_date, f.end_date)) =>
            /\ n >= 1 /\ n <= days
            /\ \A i \in 1..n :
                /\ calls[i][1] = "PUT" /\ calls[i][3] = f.employee_id
                /\ ToOrdinal(calls[i][4]) = ToOrdinal(f.start_date) + i - 1
            /\ \A i \in 1..(n - 1) : calls[i][5] = "ok"
            /\ \A i \in 1..n :
                calls[i][5] = "ok" =>
                    work_records[<<f.employee_id, calls[i][4]>>].work_record_template_id
                        = f.selected
            /\ IF calls[n][5] = "ok"
               THEN /\ n = days
                    /\ HasMessage(f, "leave_request_submitted")
                    /\ ~HasMessage(f, "error_leave_request_failed")
               ELSE /\ HasMessage(f, "error_leave_request_failed")
                    /\ ~HasMessage(f, "leave_request_submitted")

\* C8: a /退勤 invocation that got a usable access token sends the success
\* acknowledgment exactly when the employee lookup found the employee and the
\* time-clock call succeeded; when the lookup finds nobody, the user gets an
\* error message and no time-clock call is made.
C8_ClockOutReply ==
    \A p \in Procs :
        LET f == proc[p]
            lookups == Events(f, IsLookup)
            clocks == Events(f, IsTimeClock)
        IN (/\ f.handler = "handle_clock_out_command" /\ f.pc = "done"
            /\ f.access_token # None) =>
            /\ HasMessage(f, "clock_out_done") <=>
                (/\ lookups # <<>> /\ lookups[1][5] = "found"
                 /\ clocks # <<>> /\ clocks[1][5] = "ok")
            /\ (lookups # <<>> /\ lookups[1][5] = "not_found") =>
                /\ HasMessage(f, "error_employee_not_found")
                /\ ~HasMessage(f, "clock_out_done")
                /\ clocks = <<>>

\* A linked user's /退勤 has ended with the success acknowledgment.
C8_Witness ==
    \E p \in Procs :
        /\ proc[p].handler = "handle_clock_out_command" /\ proc[p].pc = "done"
        /\ proc[p].access_token # None
        /\ HasMessage(proc[p], "clock_out_done")
        /\ Events(proc[p], IsTimeClock) # <<>>

\* C9: a clock-in submission that made its time-clock call ends with exactly
\* one of three different messages: the failure message when the time-clock
\* call failed, the partial message exactly when the time-clock call succeeded
\* and the tag update failed, the success message when both succeeded.
C9_ClockInOutcomesDistinct ==
    \A p \in Procs :
        LET f == proc[p]
            clocks == Events(f, IsTimeClock)
            tags == Events(f, IsWorkRecordCall)
            clock_ok == clocks[1][5] = "ok"
            tag_failed == tags # <<>> /\ tags[Len(tags)][5] # "ok"
            tag_ok == Len(tags) = 2 /\ tags[2][5] = "ok"
        IN (/\ f.handler = "handle_clock_in_submission" /\ f.pc = "done"
            /\ clocks # <<>>) =>
            /\ Len(Events(f, IsMessage)) = 1
            /\ HasMessage(f, "error_time_clock_failed") <=> ~clock_ok
            /\ HasMessage(f, "clock_in_done_tag_failed") <=> (clock_ok /\ tag_failed)
            /\ HasMessage(f, "clock_in_and_tag_done") <=> (clock_ok /\ tag_ok)

CommandAndModalHandlers ==
    {"handle_auth_command", "handle_clock_in_command", "handle_clock_out_command",
     "handle_applications_command", "handle_clock_in_submission",
     "handle_select_application_type", "handle_submit_leave_request"}

\* C10: every invocation of a command handler or modal-submission handler
\* that has ended has sent the user something visible (a chat message, or a
\* modal opened, pushed or updated).
C10_EveryPathReplies ==
    \A p \in Procs :
        (proc[p].handler \in CommandAndModalHandlers /\ proc[p].pc = "done")
            => Events(proc[p], IsUserVisible) # <<>>

\* C10, the paths that return normally: none returns without a visible reply.
C10_NoSilentReturn ==
    \A p \in Procs :
        (/\ proc[p].handler \in CommandAndModalHandlers /\ proc[p].pc = "done"
         /\ proc[p].result = "returned")
            => Events(proc[p], IsUserVisible) # <<>>

Handlers == CommandAndModalHandlers \cup {"oauth_callback"}

\* C11: whatever the outcome of its external calls, an invocation of a
\* command handler, a modal-submission handler or the OAuth callback ends by
\* returning to the platform layer; none ends with a fault raised out of it.
C11_NoFaultPropagates ==
    \A p \in Procs :
        (proc[p].handler \in Handlers /\ proc[p].pc = "done")
            => proc[p].result \in {"returned", "500"}

ModalHandlers ==
    {"handle_clock_in_submission", "handle_select_application_type",
     "handle_submit_leave_request"}

IsOutbound(e) == IsHrCall(e) \/ IsMessage(e)

\* C12: in every invocation of a modal-submission handler the acknowledgement
\* is the first thing the handler does and is sent once: every token-endpoint
\* request, HR API request and chat message of the invocation comes after it.
C12_AckBeforeSlowCalls ==
    \A p \in Procs :
        LET f == proc[p]
        IN (f.handler \in ModalHandlers) =>
            /\ f.trace # <<>> /\ f.trace[1] = Ack
            /\ \A i \in DOMAIN f.trace :
                /\ IsOutbound(f.trace[i]) => i > 1
                /\ f.trace[i] = Ack => i = 1

\* A modal submission has ended after a token refresh, HR calls and a message.
C12_Witness ==
    \E p \in Procs :
        /\ proc[p].handler \in ModalHandlers /\ proc[p].pc = "done"
        /\ Events(proc[p], IsRefresh) # <<>>
        /\ Events(proc[p], IsWorkRecordCall) # <<>>
        /\ Events(proc[p], IsMessage) # <<>>

IsCodeExchange(e) == IsHrCall(e) /\ e[2] = "token" /\ e[3] = "authorization_code"

\* The step that ends the OAuth callback in slot p, against the exchange's outcome.
C13_Step(p) ==
    LET f == proc[p]
        g == proc'[p]
        s == g.user_id
        exchange == Events(g, IsCodeExchange)
        written == g.new_token_data[1]
        before == {i \in DOMAIN db : db[i].slack_user_id = s}
        after == {i \in DOMAIN db' : db'[i].slack_user_id = s}
    IN (g.handler = "oauth_callback" /\ g.pc = "done" /\ f.pc # "done") =>
        /\ Len(exchange) = 1
        /\ IF exchange[1][5] = "ok"
           THEN /\ HasMessage(g, "link_completed")
                /\ Len(Events(g, IsMessage)) = 1
                /\ Cardinality(after) = 1
                /\ \A i \in after : db'[i] = written
                /\ written.slack_user_id = s /\ written.access_token # None
                /\ IF before = {}
                   THEN db' = Append(db, written)
                   ELSE /\ Len(db') = Len(db)
                        /\ \A i \in DOMAIN db : i \notin before => db'[i] = db[i]
           ELSE /\ Events(g, IsMessage) = <<>>
                /\ db' = db

\* C13: the OAuth callback with state = s ends with the token record of s
\* written (appended when s had none, overwritten in place when s had one, the
\* other subjects' records untouched) and one completion message sent to s
\* when the code exchange returned an access token; in every other case it
\* ends with the token store as it was and no message sent.
C13_CallbackWritesIffToken ==
    /\ [][\A p \in Procs : C13_Step(p)]_vars
    /\ [][\A p \in Procs :
            (proc'[p].handler = "oauth_callback" /\ proc[p].pc = "idle") => db' = db]_vars

\* A request to the calendar API to insert an all-day event:
\* <<"events_insert", start date, end date>>.
IsCalendarInsert(e) == e[1] = "events_insert"

\* C14: a leave submission over [start, end], start <= end, that reported
\* success has requested one all-day calendar event whose start is start and
\* whose end boundary is the day after end.
C14_CalendarEventEndExclusive ==
    \A p \in Procs :
        LET f == proc[p]
            inserts == Events(f, IsCalendarInsert)
        IN (/\ f.handler = "handle_submit_leave_request" /\ f.pc = "done"
            /\ DateLE(f.start_date, f.end_date)
            /\ HasMessage(f, "leave_request_submitted")) =>
            /\ Len(inserts) = 1
            /\ inserts[1][2] = f.start_date
            /\ inserts[1][3] = NextDay(f.end_date)

IsSleep(e) == e = <<"sleep", 3>>

\* C15: in every clock-in modal submission each request of the tag update
\* (the read and the write of the work record) comes after the invocation's
\* time-clock call has succeeded and after the 3-second delay that follows
\* it; an invocation whose time-clock call failed, or that got no token or no
\* employee, has issued no tag-update request.
C15_TagUpdateAfterClockAndDelay ==
    \A p \in Procs :
        LET f == proc[p]
            clocks == Events(f, IsTimeClock)
        IN (f.handler = "handle_clock_in_submission") =>
            /\ \A i \in DOMAIN f.trace :
                IsWorkRecordCall(f.trace[i]) =>
                    \E j, k \in 1..(i - 1) :
                        /\ j < k
                        /\ IsTimeClock(f.trace[j])
                        /\ f.trace[j][4] = "clock_in" /\ f.trace[j][5] = "ok"
                        /\ IsSleep(f.trace[k])
            /\ Len(clocks) <= 1
            /\ (f.pc = "done" /\ (clocks = <<>> \/ clocks[1][5] # "ok"))
                => Events(f, IsWorkRecordCall) = <<>>
            /\ (f.pc = "done" /\ (f.access_token = None \/ f.employee_id = None))
                => (clocks = <<>> /\ Events(f, IsWorkRecordCall) = <<>>)

\* A clock-in submission has ended with its tag update read and written.
C15_Witness ==
    \E p \in Procs :
        /\ proc[p].handler = "handle_clock_in_submission" /\ proc[p].pc = "done"
        /\ Len(Events(proc[p], IsWorkRecordCall)) = 2
        /\ Events(proc[p], IsSleep) # <<>>

\* C16: when two invocations for the same subject have both refreshed the
\* subject's expired token and written the result back, every record of the
\* subject holds the token set of the later of the two exchanges (the
\* provider numbers the token sets in the order it issues them).
C16_NoLostTokenUpdate ==
    \A p, q \in Procs :
        LET f == proc[p]
            g == proc[q]
        IN (/\ p # q /\ f.user_id = g.user_id
            /\ f.branch = "refreshed" /\ g.branch = "refreshed"
            /\ f.new_token_data[1].access_token < g.new_token_data[1].access_token) =>
            \A i \in Matching(f.user_id) :
                /\ db[i].access_token = g.new_token_data[1].access_token
                /\ db[i].refresh_token = g.new_token_data[1].refresh_token

WizardViews == {"select_application_type_view", "submit_leave_request_view"}
IsDirectoryCall(e) == IsLookup(e) \/ e[1] = "users_info"
IsViewShown(e) == e[1] \in {"views_open", "views_push"}

\* C17: in a wizard session the employee is looked up once, by the /各種申請
\* invocation that opens the first modal; the type-selection and leave
\* submission steps make no directory call; the identifier that invocation
\* resolved is the one every wizard view carries in its private_metadata and
\* the one every leave update call is made for.
C17_EmployeeResolvedOnce ==
    /\ \A u \in Users :
        views[u].callback_id \in WizardViews =>
            (views[u].private_metadata = EmployeeOf(u) /\ EmployeeOf(u) # None)
    /\ \A p \in Procs :
        LET f == proc[p]
            lookups == Events(f, IsLookup)
            shown == Events(f, IsViewShown)
        IN /\ (f.handler = "handle_applications_command") =>
                /\ Len(lookups) <= 1
                /\ shown # <<>> =>
                    /\ Len(lookups) = 1 /\ lookups[1][5] = "found"
                    /\ shown[1][2].private_metadata = f.employee_id
                    /\ f.employee_id = EmployeeOf(f.user_id)
           /\ (f.handler \in {"handle_select_application_type", "handle_submit_leave_request"}) =>
                /\ Events(f, IsDirectoryCall) = <<>>
                /\ f.employee_id = EmployeeOf(f.user_id) /\ f.employee_id # None
                /\ \A i \in DOMAIN shown : shown[i][2].private_metadata = f.employee_id
                /\ \A i \in DOMAIN f.trace :
                    IsWorkRecordCall(f.trace[i]) => f.trace[i][3] = f.employee_id

\* A leave submission has written a day for the employee its view carried.
C17_Witness ==
    \E p \in Procs :
        /\ proc[p].handler = "handle_submit_leave_request" /\ proc[p].pc = "done"
        /\ \E i \in DOMAIN proc[p].trace :
            /\ IsWorkRecordCall(proc[p].trace[i])
            /\ proc[p].trace[i][3] = EmployeeOf(proc[p].user_id)
            /\ proc[p].trace[i][5] = "ok"

IsTagWrite(e) == IsWorkRecordCall(e) /\ e[1] = "PUT" /\ e[5] = "ok"

\* C18: a tag update writes back the record it read, with the tag list set to
\* its own single tag, whatever the upstream record has become since the read
\* (nothing compares the two): after every successful write-back the day's
\* record is the writer's read record carrying exactly the writer's tag, and
\* a tag list never holds more than one tag.
C18_LastWriterWins ==
    /\ [][\A p \in Procs :
            LET f == proc[p]
                g == proc'[p]
                day == <<f.employee_id, Today>>
            IN (f.pc = "tag_put" /\ g.pc = "done" /\ IsTagWrite(g.trace[Len(g.trace)])) =>
                /\ work_records'[day].employee_attendance_tags = <<f.selected>>
                /\ work_records'[day].work_record_template_id =
                        f.work_record[1].work_record_template_id
                /\ \A k \in DOMAIN work_records :
                        k # day => work_records'[k] = work_records[k]]_vars
    /\ [][\A k \in DOMAIN work_records :
            Len(work_records'[k].employee_attendance_tags) <= 1]_vars

\* Two tag updates for the same employee and day have both read the record
\* before either wrote (each read a record without tags) and both have
\* written: the tag of the one that wrote first is gone from the record.
C18_Witness ==
    \E p, q \in Procs :
        LET f == proc[p]
            g == proc[q]
        IN /\ p # q /\ f.pc = "done" /\ g.pc = "done"
           /\ f.handler = "handle_clock_in_submission"
           /\ g.handler = "handle_clock_in_submission"
           /\ f.work_record # <<>> /\ g.work_record # <<>>
           /\ f.employee_id = g.employee_id /\ f.selected # g.selected
           /\ IsTagWrite(f.trace[Len(f.trace) - 1])
           /\ IsTagWrite(g.trace[Len(g.trace) - 1])
           /\ f.work_record[1].employee_attendance_tags = <<>>
           /\ g.work_record[1].employee_attendance_tags = <<>>
           /\ work_records[<<f.employee_id, Today>>].employee_attendance_tags = <<f.selected>>

\* C19: a leave submission whose end date is earlier than its start date
\* issues no update call at any point, and once it has got a token it ends
\* with the 'leave request submitted' message and no failure message.
C19_ReversedRangeReportsSuccess ==
    \A p \in Procs :
        LET f == proc[p]
        IN (/\ f.handler = "handle_submit_leave_request"
            /\ ToOrdinal(f.end_date) < ToOrdinal(f.start_date)) =>
            /\ Events(f, IsWorkRecordCall) = <<>>
            /\ (f.pc = "done" /\ f.access_token # None) =>
                /\ f.result = "returned"
                /\ Events(f, IsMessage) =
                        <<<<"chat_postMessage", f.user_id, "leave_request_submitted">>>>

\* A submission with end before start has ended with the success message.
C19_Witness ==
    \E p \in Procs :
        /\ proc[p].handler = "handle_submit_leave_request" /\ proc[p].pc = "done"
        /\ proc[p].start_date = <<2024, 3, 1>> /\ proc[p].end_date = <<2024, 2, 28>>
        /\ HasMessage(proc[p], "leave_request_submitted")
        /\ Events(proc[p], IsWorkRecordCall) = <<>>

\* The records a token store d holds for a subject.
RecordsOf(d, user_id) ==
    LET OfSubject(document) == document.slack_user_id = user_id
    IN SelectSeq(d, OfSubject)

\* The step of slot p is a refresh exchange that failed.
RefreshFails(p) == proc[p].pc = "refresh_post" /\ proc'[p].branch = "refresh_failed"

\* The step of slot q is the write of an OAuth callback / of a successful refresh.
CallbackWrites(q) ==
    /\ proc[q].handler = "oauth_callback"
    /\ proc[q].pc \in {"upsert", "upsert_insert"} /\ proc'[q].pc = "done"
RefreshWrites(q) == proc[q].pc = "db_update" /\ proc'[q].pc = "got_token"

\* A failed refresh exchange leaves the token store as it was: the subject
\* still has its record (so the pre-check answers 'linked'), the caller gets
\* no token and the provider has issued nothing.
C20_FailureLeavesStore ==
    \A p \in Procs :
        RefreshFails(p) =>
            /\ db' = db /\ issued' = issued
            /\ db_contains(proc[p].user_id)
            /\ proc'[p].access_token = None

\* While the record of a subject whose refresh failed is still the one the
\* failed invocation read, it is expired, and an invocation that reads it
\* goes on to a refresh exchange.
C20_RetriesWhileExpired ==
    \A p, q \in Procs :
        LET f == proc[p]
        IN (/\ f.branch = "refresh_failed" /\ db_get(f.user_id) = f.user_data
            /\ proc[q].pc = "get_freee_token" /\ proc[q].user_id = f.user_id
            /\ proc'[q] # proc[q]) =>
            /\ now >= f.user_data[1].created_at + f.user_data[1].expires_in
            /\ proc'[q].pc = "refresh_post"

\* C20 as stated: a failed refresh leaves the store unchanged, and from then
\* on the subject's record stays as it was, every invocation that reads it
\* attempting a refresh, until the write of an OAuth callback changes it.
C20_UntilCallbackOnly ==
    /\ [][C20_FailureLeavesStore]_vars
    /\ [][C20_RetriesWhileExpired]_vars
    /\ [][\A p \in Procs :
            (proc[p].branch = "refresh_failed"
                /\ RecordsOf(db', proc[p].user_id) # RecordsOf(db, proc[p].user_id))
            => \E q \in Procs : CallbackWrites(q)]_vars

\* C20, amended: a failed refresh leaves the store unchanged, and from then on
\* the subject's record stays as it was, every invocation that reads it
\* attempting a refresh, until the write of a successful refresh exchange or
\* of an OAuth callback changes it.
C20_UntilRefreshOrCallback ==
    /\ [][C20_FailureLeavesStore]_vars
    /\ [][C20_RetriesWhileExpired]_vars
    /\ [][\A p \in Procs :
            (proc[p].branch = "refresh_failed"
                /\ RecordsOf(db', proc[p].user_id) # RecordsOf(db, proc[p].user_id))
            => \E q \in Procs : CallbackWrites(q) \/ RefreshWrites(q)]_vars

\* After one invocation's refresh failed, another has read the same expired
\* record, still stored, and is about to run a refresh exchange for it.
C20_Witness ==
    \E p, q \in Procs :
        /\ p # q /\ proc[p].pc = "done" /\ proc[p].branch = "refresh_failed"
        /\ db_get(proc[p].user_id) = proc[p].user_data
        /\ proc[q].pc = "refresh_post" /\ proc[q].user_data = proc[p].user_data

CommandHandlers ==
    {"handle_auth_command", "handle_clock_in_command", "handle_clock_out_command",
     "handle_applications_command"}

\* A call that leaves the process: to freee, or to the Slack Web API.
IsOutboundCall(e) ==
    IsHrCall(e) \/ IsMessage(e) \/ IsViewOp(e) \/ e[1] = "users_info"

\* In the invocation of frame f every outbound call comes after the ack.
AckFirst(f) ==
    \A i \in DOMAIN f.trace :
        IsOutboundCall(f.trace[i]) => \E j \in 1..(i - 1) : f.trace[j] = Ack

C21_AckFirstInOtherCommands ==
    \A p \in Procs :
        (proc[p].handler \in CommandHandlers \ {"handle_applications_command"})
            => (AckFirst(proc[p]) /\ proc[p].trace[1] = Ack)

====
